---- MODULE Spec2Model ----
(***************************************************************************)
(* A model of netpad-mcp-proxy (src/bin/netpad-mcp-proxy.js): the          *)
(* credential store, the proxy process with its route handlers, the        *)
(* error normaliser handleProxyError and the OpenAI function translator.   *)
(*                                                                         *)
(* JavaScript values are tagged records, so that values of different       *)
(* JavaScript types can be compared.  An object is an ordered sequence of  *)
(* key/value pairs (JavaScript objects keep the insertion order of their   *)
(* string keys); an array carries its elements and, apart from them, the   *)
(* properties assigned to it by name.  Strings that the code cuts at a     *)
(* character (req.url) are sequences of tokens, "?" being a token.         *)
(***************************************************************************)
EXTENDS Integers, Sequences, FiniteSets, TLC

VARIABLES
    config,      \* the Conf store: [netpadUrl, apiKey]
    running,     \* whether the proxy process is serving
    netpadUrl,   \* startServer's const netpadUrl, captured by the handlers
    req,         \* the inbound request being handled, with its outbound call
    tools,       \* translator: response.data of GET /api/mcp/tools?schema=true
    functions,   \* translator: the mapped array, or the TypeError it threw
    tpc,         \* translator: "off" in Spec; "input" before the map, "done" after
    handle,      \* what index.js startServer() returned: its child process
    last,        \* the last command line run, with the store it found
    reqs         \* the requests a serving proxy handles at the same time

vars == <<config, running, netpadUrl, req, tools, functions, tpc,
          handle, last, reqs>>

----------------------------------------------------------------------------
(* JavaScript values *)

Undef == [t |-> "undefined"]
Null == [t |-> "null"]
Str(s) == [t |-> "string", s |-> s]
Num(n) == [t |-> "number", n |-> n]
Bool(b) == [t |-> "boolean", b |-> b]
Obj(p) == [t |-> "object", p |-> p]
Arr(a) == [t |-> "array", a |-> a, p |-> <<>>]
Pair(k, v) == [k |-> k, v |-> v]

\* What a handler's try block ends with when a statement throws a TypeError.
TypeError == [t |-> "TypeError"]

Nullish(v) == v.t \in {"undefined", "null"}

\* ToBoolean, as `!x` and `x || y` apply it.
Truthy(v) ==
    CASE v.t = "undefined" -> FALSE
      [] v.t = "null" -> FALSE
      [] v.t = "string" -> v.s # ""
      [] v.t = "number" -> v.n # 0
      [] v.t = "boolean" -> v.b
      [] OTHER -> TRUE

HasKey(o, k) ==
    /\ o.t \in {"object", "array"}
    /\ \E i \in DOMAIN o.p : o.p[i].k = k

\* o[k] for a non-nullish o: a primitive has no own property k.
Get(o, k) ==
    IF HasKey(o, k)
    THEN o.p[CHOOSE i \in DOMAIN o.p : o.p[i].k = k].v
    ELSE Undef

\* o[k] = v for an object or an array o: an existing key keeps its place,
\* a new key goes last.
Put(o, k, v) ==
    IF HasKey(o, k)
    THEN [o EXCEPT !.p = [i \in DOMAIN o.p |->
                            IF o.p[i].k = k THEN Pair(k, v) ELSE o.p[i]]]
    ELSE [o EXCEPT !.p = Append(o.p, Pair(k, v))]

\* a || b
Or(a, b) == IF Truthy(a) THEN a ELSE b

\* JSON.parse(JSON.stringify(v)): what the peer receives when v is sent as
\* JSON (res.json, axios.post).  A property whose value is undefined is left
\* out, an undefined array element becomes null, and the named properties of
\* an array are not sent.
RECURSIVE Json(_)
Json(v) ==
    CASE v.t = "object" ->
           LET kept == SelectSeq(v.p, LAMBDA e : e.v.t # "undefined")
           IN  Obj([i \in DOMAIN kept |-> Pair(kept[i].k, Json(kept[i].v))])
      [] v.t = "array" ->
           Arr([i \in DOMAIN v.a |->
                  IF v.a[i].t = "undefined" THEN Null ELSE Json(v.a[i])])
      [] OTHER -> v

----------------------------------------------------------------------------
(* The credential store *)

DefaultUrl == "http://localhost:3000"
ProductionUrl == "https://api.netpad.ai"

Urls == {DefaultUrl, ProductionUrl}
Keys == {"mcp_k1", "mcp_k2"}

\* new Conf({defaults}): netpadUrl and apiKey (the port plays no part in
\* forwarding and is left out).
ConfDefaults == [netpadUrl |-> DefaultUrl, apiKey |-> ""]

\* What a CLI flag or a prompt answer holds when nothing was given.
NoValue == ""

IdleReq == [pc |-> "idle"]

ReqIds == {"a", "b"}
NoHandle == [spawned |-> FALSE]
NoRun == [op |-> "none"]

Init ==
    /\ config = ConfDefaults
    /\ running = FALSE
    /\ netpadUrl = DefaultUrl
    /\ req = IdleReq
    /\ tools = Undef
    /\ functions = Undef
    /\ tpc = "off"
    /\ handle = NoHandle
    /\ last = NoRun
    /\ reqs = [id \in ReqIds |-> IdleReq]

translator == <<tools, functions, tpc>>

\* The variables of the specifications SpecLifecycle and SpecConcurrent.
apart == <<handle, last, reqs>>

\* `netpad-mcp-proxy --reset`: config.clear() puts the defaults back.
Reset ==
    /\ config' = ConfDefaults
    /\ UNCHANGED <<running, netpadUrl, req, translator, apart>>

\* `netpad-mcp-proxy --configure`, run as a process of its own: the
\* environment prompt, the URL prompt of the development environment, and the
\* API key prompt.  Only non-empty answers are stored.
Configured(environment, devUrl, apiKey) ==
    LET url == IF environment = "production" THEN ProductionUrl ELSE devUrl
    IN  [netpadUrl |-> IF url # NoValue THEN url ELSE config.netpadUrl,
         apiKey |-> IF apiKey # NoValue THEN apiKey ELSE config.apiKey]

Configure(environment, devUrl, apiKey) ==
    /\ config' = Configured(environment, devUrl, apiKey)
    /\ UNCHANGED <<running, netpadUrl, req, translator, apart>>

\* options.netpadUrl: commander gives --netpad-url the default
\* 'http://localhost:3000' when the flag is not on the command line.
OptionNetpadUrl(urlFlag) == IF urlFlag = NoValue THEN DefaultUrl ELSE urlFlag

\* A start of the proxy: the command line options are written to the store,
\* then startServer() reads the store, asks for an API key when the store has
\* none (exit code 1 when none is given), and serves.
Started(urlFlag, keyFlag, promptKey) ==
    LET opt == OptionNetpadUrl(urlFlag)
        c1 == [netpadUrl |-> IF opt # NoValue THEN opt ELSE config.netpadUrl,
               apiKey |-> IF keyFlag # NoValue THEN keyFlag ELSE config.apiKey]
        ask == c1.apiKey = ""
        c2 == IF ask /\ promptKey # NoValue
              THEN [c1 EXCEPT !.apiKey = promptKey] ELSE c1
    IN  [config |-> c2,
         running |-> ~(ask /\ promptKey = NoValue),
         netpadUrl |-> c1.netpadUrl]

StartServer(urlFlag, keyFlag, promptKey) ==
    LET started == Started(urlFlag, keyFlag, promptKey)
    IN  /\ ~running
        /\ config' = started.config
        /\ running' = started.running
        /\ netpadUrl' = started.netpadUrl
        /\ UNCHANGED <<req, translator, apart>>

\* The proxy process ends (Ctrl+C, kill): what it was handling is lost.
StopServer ==
    /\ running
    /\ running' = FALSE
    /\ req' = IdleReq
    /\ UNCHANGED <<config, netpadUrl, translator, apart>>

----------------------------------------------------------------------------
(* The error normaliser *)

\* An error thrown inside a handler's try block: an axios error that carries
\* the upstream response, or an error without one (a transport failure, or a
\* TypeError thrown by the handler's own statements).
ResponseError(status, data) ==
    [hasResponse |-> TRUE, status |-> status, data |-> data,
     message |-> "Request failed"]
PlainError(message) ==
    [hasResponse |-> FALSE, status |-> 0, data |-> Undef, message |-> message]

AuthMessage == "Authentication failed: Invalid or missing API key."
AuthSuggestion == "Re-run netpad-mcp-proxy --configure to update your API key"
NotFoundMessage == "The requested resource was not found on the NetPad server."
ConnectionMessage == "Proxy Error: Could not connect to the NetPad server."
ConnectionSuggestion == "Check your internet connection"

\* res.status(status).json(body)
Respond(status, body) == [status |-> status, body |-> Json(body)]

MutHandleProxyError_NoNotFound(error) ==
    IF error.hasResponse
    THEN IF error.status = 401 \/ error.status = 403
         THEN Respond(error.status, Obj(<<
                Pair("success", Bool(FALSE)),
                Pair("status", Num(error.status)),
                Pair("message", Str(AuthMessage)),
                Pair("error", Obj(<<Pair("code", Str("AUTH_ERROR")),
                                    Pair("details", error.data),
                                    Pair("suggestion", Str(AuthSuggestion))>>))>>))
         ELSE Respond(error.status, error.data)
    ELSE Respond(502, Obj(<<
           Pair("success", Bool(FALSE)),
           Pair("status", Num(502)),
           Pair("message", Str(ConnectionMessage)),
           Pair("error", Obj(<<Pair("code", Str("NETPAD_CONNECTION_ERROR")),
                               Pair("message", Str("Could not connect to NetPad at "
                                                   \o config.netpadUrl)),
                               Pair("details", Str(error.message)),
                               Pair("suggestion", Str(ConnectionSuggestion))>>))>>))

handleProxyError(error) ==
    IF error.hasResponse
    THEN IF error.status = 401 \/ error.status = 403
         THEN Respond(error.status, Obj(<<
                Pair("success", Bool(FALSE)),
                Pair("status", Num(error.status)),
                Pair("message", Str(AuthMessage)),
                Pair("error", Obj(<<Pair("code", Str("AUTH_ERROR")),
                                    Pair("details", error.data),
                                    Pair("suggestion", Str(AuthSuggestion))>>))>>))
         ELSE IF error.status = 404
         THEN Respond(404, Obj(<<
                Pair("success", Bool(FALSE)),
                Pair("status", Num(404)),
                Pair("message", Str(NotFoundMessage)),
                Pair("error", Obj(<<Pair("code", Str("NOT_FOUND")),
                                    Pair("details", error.data)>>))>>))
         ELSE Respond(error.status, error.data)
    ELSE Respond(502, Obj(<<
           Pair("success", Bool(FALSE)),
           Pair("status", Num(502)),
           Pair("message", Str(ConnectionMessage)),
           Pair("error", Obj(<<Pair("code", Str("NETPAD_CONNECTION_ERROR")),
                               Pair("message", Str("Could not connect to NetPad at "
                                                   \o config.netpadUrl)),
                               Pair("details", Str(error.message)),
                               Pair("suggestion", Str(ConnectionSuggestion))>>))>>))

\* The string a token sequence stands for.
RECURSIVE Text(_)
Text(tokens) ==
    IF tokens = <<>> THEN "" ELSE Head(tokens) \o Text(Tail(tokens))

\* The last app.use: no route matched.
EndpointNotFound(method, originalUrl) ==
    Respond(404, Obj(<<
      Pair("success", Bool(FALSE)),
      Pair("status", Num(404)),
      Pair("message", Str("Endpoint not found")),
      Pair("error", Obj(<<Pair("code", Str("NOT_FOUND")),
                          Pair("message", Str("Endpoint " \o method \o " "
                                              \o Text(originalUrl)
                                              \o " not found"))>>))>>))

----------------------------------------------------------------------------
(* The OpenAI function translator *)

\* Object.entries(params): the own properties of an object, in order.
Entries(params) == IF params.t = "object" THEN params.p ELSE <<>>

\* The body of convertParamsToProperties' loop: result[key] for one entry.
MutConvertParam_FalsyDefault(key, param) ==
    LET base == Obj(<<Pair("type", Get(param, "type")),
                      Pair("description", Or(Get(param, "description"), Str(key)))>>)
        withEnum == IF Truthy(Get(param, "enum"))
                    THEN Put(base, "enum", Get(param, "enum")) ELSE base
    IN  IF Truthy(Get(param, "default"))
        THEN Put(withEnum, "default", Get(param, "default")) ELSE withEnum

ConvertParam(key, param) ==
    LET base == Obj(<<Pair("type", Get(param, "type")),
                      Pair("description", Or(Get(param, "description"), Str(key)))>>)
        withEnum == IF Truthy(Get(param, "enum"))
                    THEN Put(base, "enum", Get(param, "enum")) ELSE base
    IN  IF Get(param, "default") # Undef
        THEN Put(withEnum, "default", Get(param, "default")) ELSE withEnum

\* Reading param.type of a null param throws.
convertParamsToProperties(params) ==
    LET entries == Entries(params)
    IN  IF \E i \in DOMAIN entries : Nullish(entries[i].v)
        THEN TypeError
        ELSE Obj([i \in DOMAIN entries |->
                    Pair(entries[i].k, ConvertParam(entries[i].k, entries[i].v))])

\* tool.parameters?.properties and tool.parameters?.required
Optional(o, k) == IF Nullish(o) THEN Undef ELSE Get(o, k)

\* The arrow function given to response.data.data.map.
TranslateTool(tool) ==
    IF Nullish(tool) THEN TypeError
    ELSE LET parameters == Get(tool, "parameters")
             properties == convertParamsToProperties(
                               Or(Optional(parameters, "properties"), Obj(<<>>)))
         IN  IF properties = TypeError THEN TypeError
             ELSE Obj(<<
                    Pair("type", Str("function")),
                    Pair("function", Obj(<<
                      Pair("name", Or(Get(tool, "invoke"), Get(tool, "internalName"))),
                      Pair("description", Get(tool, "description")),
                      Pair("parameters", Obj(<<
                        Pair("type", Str("object")),
                        Pair("properties", properties),
                        Pair("required", Or(Optional(parameters, "required"),
                                            Arr(<<>>)))>>))>>))>>)

\* response.data.data.map(...): a TypeError when response.data is null, when
\* response.data.data is not an array, or when the arrow function throws.
TranslateTools(data) ==
    IF Nullish(data) THEN TypeError
    ELSE LET list == Get(data, "data")
         IN  IF list.t # "array" THEN TypeError
             ELSE IF \E i \in DOMAIN list.a : TranslateTool(list.a[i]) = TypeError
             THEN TypeError
             ELSE Arr([i \in DOMAIN list.a |-> TranslateTool(list.a[i])])

----------------------------------------------------------------------------
(* The route handlers *)

Methods == {"GET", "POST", "PATCH"}
Paths == {<<"/">>, <<"/tools">>, <<"/tools/", "search">>, <<"/schema">>,
          <<"/command">>, <<"/api/openai-functions">>, <<"/unknown">>}
Queries == {<<>>, <<"?">>, <<"?", "limit=5">>, <<"?", "q=a", "?", "b">>}

\* express's route table, in the order of its app.get and app.post calls.
Route(method, path) ==
    CASE method = "GET" /\ path = <<"/">> -> "root"
      [] method = "GET" /\ path = <<"/tools">> -> "tools"
      [] method = "GET" /\ Len(path) = 2 /\ path[1] = "/tools/" -> "toolDetail"
      [] method = "GET" /\ path = <<"/schema">> -> "schema"
      [] method = "POST" /\ path = <<"/command">> -> "command"
      [] method = "GET" /\ path = <<"/api/openai-functions">> -> "openaiFunctions"
      [] OTHER -> "notFound"

\* QueryPart cutting after the first '?' instead of at it.
MutQueryPart_AfterMark(url) ==
    IF \E i \in DOMAIN url : url[i] = "?"
    THEN SubSeq(url, 1 + CHOOSE i \in DOMAIN url :
                            /\ url[i] = "?"
                            /\ \A j \in 1..(i - 1) : url[j] # "?",
                Len(url))
    ELSE <<>>

\* req.url.includes('?') ? req.url.substring(req.url.indexOf('?')) : ''
QueryPart(url) ==
    IF \E i \in DOMAIN url : url[i] = "?"
    THEN SubSeq(url, CHOOSE i \in DOMAIN url :
                        /\ url[i] = "?"
                        /\ \A j \in 1..(i - 1) : url[j] # "?",
                Len(url))
    ELSE <<>>

\* The URL each handler gives to axios.
UpstreamUrl(route, path, url) ==
    CASE route = "root" -> <<netpadUrl, "/api/mcp">>
      [] route = "tools" -> <<netpadUrl, "/api/mcp/tools">> \o QueryPart(url)
      [] route = "toolDetail" ->
           <<netpadUrl, "/api/mcp/tools/", path[2]>> \o QueryPart(url)
      [] route = "schema" -> <<netpadUrl, "/api/mcp/schema">> \o QueryPart(url)
      [] route = "command" -> <<netpadUrl, "/api/mcp/command">>
      [] route = "openaiFunctions" ->
           <<netpadUrl, "/api/mcp/tools", "?", "schema=true">>

ClientInfo == Obj(<<Pair("clientId", Str("netpad-mcp-proxy")),
                    Pair("platform", Str("cursor"))>>)

\* InjectBody without the test of what the body already holds.
MutInjectBody_Overwrite(body, apiKey) ==
    LET auth == Get(body, "auth")
        b1 == IF ~Truthy(auth) THEN Put(body, "auth", Obj(<<>>)) ELSE body
        a1 == Get(b1, "auth")
    IN  IF a1.t \notin {"object", "array"}
        THEN TypeError
        ELSE Put(Put(b1, "auth", Put(a1, "apiKey", Str(apiKey))),
                 "clientInfo", ClientInfo)

\* InjectBody putting the key on the body itself instead of on body.auth.
MutInjectBody_TopLevelKey(body, apiKey) ==
    LET auth == Get(body, "auth")
        inject == ~Truthy(auth) \/ ~Truthy(Get(auth, "apiKey"))
        b2 == IF inject THEN Put(body, "apiKey", Str(apiKey)) ELSE body
    IN  IF ~Truthy(Get(b2, "clientInfo"))
        THEN Put(b2, "clientInfo", ClientInfo)
        ELSE b2

\* POST /command, up to the axios.post: requestBody after the two injections,
\* or the TypeError of assigning auth.apiKey on a primitive auth (the file is
\* an ES module, so it runs in strict mode).
InjectBody(body, apiKey) ==
    LET auth == Get(body, "auth")
        inject == ~Truthy(auth) \/ ~Truthy(Get(auth, "apiKey"))
        b1 == IF inject /\ ~Truthy(auth) THEN Put(body, "auth", Obj(<<>>)) ELSE body
        a1 == Get(b1, "auth")
        b2 == IF inject THEN Put(b1, "auth", Put(a1, "apiKey", Str(apiKey))) ELSE b1
    IN  IF inject /\ a1.t \notin {"object", "array"}
        THEN TypeError
        ELSE IF ~Truthy(Get(b2, "clientInfo"))
             THEN Put(b2, "clientInfo", ClientInfo)
             ELSE b2

NoCall == [sent |-> FALSE]
NoOutcome == [kind |-> "none"]

\* An outbound axios call: URL, x-api-key header, and the body as sent.
Call(url, apiKey, body) ==
    [sent |-> TRUE, url |-> url, apiKey |-> apiKey, body |-> body]

\* A handler runs on an inbound request up to the await of its axios call (or
\* to its response, when it makes no call).  `at` keeps the store as it was
\* then.
Accepted(method, path, query, body) ==
    LET url == path \o query
        route == Route(method, path)
        in == [pc |-> "awaiting", method |-> method, path |-> path,
               query |-> query, url |-> url, body |-> body, route |-> route,
               at |-> config, call |-> NoCall, outcome |-> NoOutcome,
               res |-> Respond(0, Undef)]
        requestBody == InjectBody(body, config.apiKey)
    IN  IF route = "notFound"
        THEN [in EXCEPT !.pc = "responded",
                        !.res = EndpointNotFound(method, url)]
        ELSE IF route = "command"
        THEN IF requestBody = TypeError
             THEN [in EXCEPT !.pc = "responded",
                             !.res = handleProxyError(
                                 PlainError("Cannot create property 'apiKey'"))]
             ELSE [in EXCEPT !.call = Call(UpstreamUrl(route, path, url),
                                           config.apiKey, Json(requestBody))]
        ELSE [in EXCEPT !.call = Call(UpstreamUrl(route, path, url),
                                      config.apiKey, Undef)]

\* An inbound request reaches the proxy.
Receive(method, path, query, body) ==
    /\ running
    /\ req.pc = "idle"
    /\ req' = Accepted(method, path, query, body)
    /\ UNCHANGED <<config, running, netpadUrl, translator, apart>>

\* axios resolves on a 2xx status and rejects on any other (its default
\* validateStatus).
Resolves(status) == status >= 200 /\ status < 300

\* The rest of a handler, once its axios call has settled.
Continue(route, outcome) ==
    IF outcome.kind = "failure"
    THEN handleProxyError(PlainError(outcome.message))
    ELSE IF ~Resolves(outcome.status)
    THEN handleProxyError(ResponseError(outcome.status, outcome.data))
    ELSE IF route = "openaiFunctions"
    THEN LET fns == TranslateTools(outcome.data)
         IN  IF fns = TypeError
             THEN handleProxyError(PlainError("Cannot read properties"))
             ELSE Respond(200, fns)
    ELSE Respond(200, outcome.data)

\* The upstream answers the outbound call with an HTTP response.
UpstreamResponds(status, data) ==
    LET outcome == [kind |-> "response", status |-> status, data |-> data]
    IN  /\ running
        /\ req.pc = "awaiting"
        /\ req' = [req EXCEPT !.pc = "responded", !.outcome = outcome,
                              !.res = Continue(req.route, outcome)]
        /\ UNCHANGED <<config, running, netpadUrl, translator, apart>>

\* The outbound call ends without a response (connection refused, DNS, ...).
TransportFails(message) ==
    LET outcome == [kind |-> "failure", message |-> message]
    IN  /\ running
        /\ req.pc = "awaiting"
        /\ req' = [req EXCEPT !.pc = "responded", !.outcome = outcome,
                              !.res = Continue(req.route, outcome)]
        /\ UNCHANGED <<config, running, netpadUrl, translator, apart>>

\* The client has its response; the proxy is free for the next request.
Finish ==
    /\ running
    /\ req.pc = "responded"
    /\ req' = IdleReq
    /\ UNCHANGED <<config, running, netpadUrl, translator, apart>>

----------------------------------------------------------------------------
(* The inputs *)

\* POST /command bodies, as express.json() hands them over: a JSON object or
\* array ({} when the request has no body).
Command == <<Pair("command", Str("run"))>>
AuthParts ==
    {<<>>,
     <<Pair("auth", Obj(<<Pair("apiKey", Str("client_key"))>>))>>,
     <<Pair("auth", Obj(<<Pair("apiKey", Str(""))>>))>>,
     <<Pair("auth", Obj(<<Pair("user", Str("u"))>>))>>,
     <<Pair("auth", Str("token"))>>}
ClientInfoParts ==
    {<<>>,
     <<Pair("clientInfo", Obj(<<Pair("clientId", Str("my-editor"))>>))>>,
     <<Pair("clientInfo", Str(""))>>}
Bodies ==
    {Obj(a \o Command \o c) : a \in AuthParts, c \in ClientInfoParts}
      \cup {Obj(<<>>), Arr(<<Str("run")>>)}

\* The spec's example tool.
SearchTool ==
    Obj(<<Pair("internalName", Str("search")),
          Pair("description", Str("Find items")),
          Pair("parameters", Obj(<<
            Pair("properties", Obj(<<Pair("q", Obj(<<Pair("type", Str("string"))>>))>>)),
            Pair("required", Arr(<<Str("q")>>))>>))>>)

Statuses == {200, 201, 401, 403, 404, 500}
UpstreamBodies ==
    {Obj(<<Pair("foo", Num(1))>>),
     Str(""),
     Obj(<<Pair("success", Bool(TRUE)), Pair("data", Arr(<<SearchTool>>))>>),
     Obj(<<Pair("success", Bool(TRUE)), Pair("data", Arr(<<SearchTool, Null>>))>>)}
FailureMessages == {"connect ECONNREFUSED"}

Next ==
    \/ Reset
    \/ \E apiKey \in Keys \cup {NoValue} :
         \/ Configure("production", NoValue, apiKey)
         \/ \E devUrl \in Urls \cup {NoValue} :
              Configure("development", devUrl, apiKey)
    \/ \E urlFlag \in Urls \cup {NoValue}, keyFlag \in Keys \cup {NoValue},
          promptKey \in Keys \cup {NoValue} :
         StartServer(urlFlag, keyFlag, promptKey)
    \/ StopServer
    \/ \E method \in Methods, path \in Paths :
         \/ /\ Route(method, path) = "command"
            /\ \E body \in Bodies : Receive(method, path, <<>>, body)
         \/ /\ Route(method, path) # "command"
            /\ \E query \in Queries : Receive(method, path, query, Obj(<<>>))
    \/ \E status \in Statuses, data \in UpstreamBodies :
         UpstreamResponds(status, data)
    \/ \E message \in FailureMessages : TransportFails(message)
    \/ Finish

Spec == Init /\ [][Next]_vars

----------------------------------------------------------------------------
(* The translator on its own: TranslateTools applied to a bounded set of    *)
(* tool lists.                                                              *)

MaxTools == 2

TypeString == Obj(<<Pair("type", Str("string"))>>)
Described == Obj(<<Pair("type", Str("string")), Pair("description", Str("Query text"))>>)
EmptyDescription == Obj(<<Pair("type", Str("string")), Pair("description", Str(""))>>)
DefaultFalse ==
    Obj(<<Pair("type", Str("boolean")), Pair("description", Str("Exact match")),
          Pair("default", Bool(FALSE))>>)
EnumDefaultZero ==
    Obj(<<Pair("type", Str("number")), Pair("enum", Arr(<<Num(0), Num(1)>>)),
          Pair("default", Num(0))>>)
NoType == Obj(<<Pair("description", Str("Untyped"))>>)

NameParts ==
    {<<Pair("invoke", Str("runSearch")), Pair("internalName", Str("search"))>>,
     <<Pair("internalName", Str("search"))>>,
     <<Pair("invoke", Str("")), Pair("internalName", Str("search"))>>}
WellFormedProperties ==
    {<<Pair("q", TypeString)>>,
     <<Pair("q", Described), Pair("exact", DefaultFalse)>>,
     <<Pair("exact", DefaultFalse), Pair("q", EmptyDescription)>>,
     <<Pair("count", EnumDefaultZero), Pair("q", Described)>>}
MalformedProperties ==
    {<<Pair("q", NoType), Pair("exact", DefaultFalse)>>,
     <<Pair("q", Null)>>}
RequiredParts == {<<>>, <<Pair("required", Arr(<<Str("q")>>))>>}

Tool(name, properties, required) ==
    Obj(name \o <<Pair("description", Str("Find items")),
                  Pair("parameters", Obj(<<Pair("properties", Obj(properties))>>
                                         \o required))>>)

WellFormedTools ==
    {Tool(n, p, r) : n \in NameParts, p \in WellFormedProperties, r \in RequiredParts}
MalformedTools ==
    {Tool(<<Pair("internalName", Str("search"))>>, p, <<>>) : p \in MalformedProperties}
      \cup {Obj(<<Pair("internalName", Str("ping"))>>), Null}

ToolLists ==
    UNION {[1..n -> WellFormedTools \cup MalformedTools] : n \in 0..MaxTools}
ToolResponses ==
    {Obj(<<Pair("success", Bool(TRUE)), Pair("data", Arr(l))>>) : l \in ToolLists}
      \cup {Obj(<<Pair("success", Bool(TRUE))>>)}

InitTranslate ==
    /\ config = ConfDefaults
    /\ running = FALSE
    /\ netpadUrl = DefaultUrl
    /\ req = IdleReq
    /\ tools \in ToolResponses
    /\ functions = Undef
    /\ tpc = "input"
    /\ handle = NoHandle
    /\ last = NoRun
    /\ reqs = [id \in ReqIds |-> IdleReq]

\* const functions = response.data.data.map(...)
Translate ==
    /\ tpc = "input"
    /\ functions' = TranslateTools(tools)
    /\ tpc' = "done"
    /\ UNCHANGED <<config, running, netpadUrl, req, tools, apart>>

NextTranslate == Translate

SpecTranslate == InitTranslate /\ [][NextTranslate]_vars

----------------------------------------------------------------------------
(* Properties of the error normaliser and of the request forwarder, checked *)
(* under Spec.                                                              *)

Responded == req.pc = "responded"
CallSent == req.pc # "idle" /\ req.call.sent

\* The upstream answered the call with an HTTP error status.
UpstreamErrored ==
    /\ Responded
    /\ req.outcome.kind = "response"
    /\ ~Resolves(req.outcome.status)

ErrorCode(res) == Get(Get(res.body, "error"), "code")

IsConnectionError(res) ==
    res.status = 502 /\ ErrorCode(res) = Str("NETPAD_CONNECTION_ERROR")

\* C1: an upstream HTTP error response is classified in priority order: 401
\* and 403 give AUTH_ERROR with the same status, 404 gives NOT_FOUND with
\* status 404, and any other status is passed through with the upstream body
\* unchanged; 401, 403 and 404 are never passed through.
C1_ErrorClassification ==
    UpstreamErrored =>
      LET status == req.outcome.status
          data == req.outcome.data
      IN  /\ req.res.status = status
          /\ status \in {401, 403} =>
               /\ ErrorCode(req.res) = Str("AUTH_ERROR")
               /\ Get(Get(req.res.body, "error"), "details") = data
               /\ req.res.body # data
          /\ status = 404 =>
               /\ ErrorCode(req.res) = Str("NOT_FOUND")
               /\ Get(Get(req.res.body, "error"), "details") = data
               /\ req.res.body # data
          /\ status \notin {401, 403, 404} => req.res.body = data

C1_Witness ==
    /\ UpstreamErrored
    /\ req.outcome.status = 404
    /\ req.route = "toolDetail"
    /\ ErrorCode(req.res) = Str("NOT_FOUND")

\* C2: a 502 NETPAD_CONNECTION_ERROR response is produced only when the
\* outbound call was made and yielded no upstream response at all.
C2_ConnectionErrorOnlyWithoutResponse ==
    (Responded /\ IsConnectionError(req.res)) =>
      (req.call.sent /\ req.outcome.kind = "failure")

\* C3: on every forwarding route other than /api/openai-functions, a 2xx
\* upstream response with status s and body b is answered with status s and
\* body b.
C3_SuccessVerbatim ==
    (/\ Responded
     /\ req.route \in {"root", "tools", "toolDetail", "schema", "command"}
     /\ req.outcome.kind = "response"
     /\ Resolves(req.outcome.status)) =>
      (/\ req.res.status = req.outcome.status
       /\ req.res.body = req.outcome.data)

\* C4: every outbound call goes to the base URL, and carries the API key,
\* that the store holds at the time of the call.
C4_CallUsesStoreAtCallTime ==
    CallSent =>
      (/\ req.call.url[1] = req.at.netpadUrl
       /\ req.call.apiKey = req.at.apiKey)

\* The inbound body's auth.apiKey (undefined when there is none).
InboundApiKey == Get(Get(req.body, "auth"), "apiKey")
CommandCallSent == CallSent /\ req.route = "command"

\* C5 as stated: an auth.apiKey or a clientInfo that the inbound body already
\* holds is carried to the outbound body, whatever the value is.
C5_InjectionNeverOverwrites ==
    CommandCallSent =>
      (/\ HasKey(Get(req.body, "auth"), "apiKey") =>
            Get(Get(req.call.body, "auth"), "apiKey") = InboundApiKey
       /\ HasKey(req.body, "clientInfo") =>
            Get(req.call.body, "clientInfo") = Get(req.body, "clientInfo"))

\* C5, amended: an auth.apiKey or a clientInfo that the inbound body already
\* holds is carried to the outbound body unchanged, whatever the stored key,
\* when the value is truthy (not "", 0, false or null).
C5_InjectionKeepsTruthyValues ==
    CommandCallSent =>
      (/\ Truthy(InboundApiKey) =>
            Get(req.call.body, "auth") = Get(req.body, "auth")
       /\ Truthy(Get(req.body, "clientInfo")) =>
            Get(req.call.body, "clientInfo") = Get(req.body, "clientInfo"))

C5_Witness ==
    /\ CommandCallSent
    /\ InboundApiKey = Str("client_key")
    /\ req.at.apiKey = "mcp_k2"
    /\ Get(Get(req.call.body, "auth"), "apiKey") = Str("client_key")
    /\ Get(req.call.body, "clientInfo")
         = Obj(<<Pair("clientId", Str("my-editor"))>>)

\* o without the properties named in ks.
Without(o, ks) == [o EXCEPT !.p = SelectSeq(o.p, LAMBDA e : e.k \notin ks)]

\* C6 as stated: a body with no auth field goes out with auth.apiKey equal to
\* the key stored at the time of the call and is otherwise identical.
C6_NoAuthBodyOnlyGainsKey ==
    (CommandCallSent /\ ~HasKey(req.body, "auth")) =>
      (/\ Get(Get(req.call.body, "auth"), "apiKey") = Str(req.at.apiKey)
       /\ Without(req.call.body, {"auth"}) = req.body)

\* C6, amended: a JSON object body with no auth field goes out with auth
\* equal to {apiKey: the key stored at the time of the call}; its clientInfo
\* is the inbound one when that is truthy and the proxy's own otherwise; every
\* other part is identical to the inbound body.
C6_NoAuthBodyGainsKeyAndClientInfo ==
    (CommandCallSent /\ req.body.t = "object" /\ ~HasKey(req.body, "auth")) =>
      (/\ Get(req.call.body, "auth") = Obj(<<Pair("apiKey", Str(req.at.apiKey))>>)
       /\ Get(req.call.body, "clientInfo")
            = IF Truthy(Get(req.body, "clientInfo"))
              THEN Get(req.body, "clientInfo")
              ELSE ClientInfo
       /\ Without(req.call.body, {"auth", "clientInfo"})
            = Without(req.body, {"auth", "clientInfo"}))

C6_Witness ==
    /\ CommandCallSent
    /\ req.body = Obj(Command)
    /\ req.at.apiKey = "mcp_k2"
    /\ Get(Get(req.call.body, "auth"), "apiKey") = Str("mcp_k2")
    /\ Get(req.call.body, "command") = Str("run")

\* The query string of a URL: from its first '?' to its end.
RECURSIVE QueryStringOf(_)
QueryStringOf(url) ==
    IF url = <<>> THEN <<>>
    ELSE IF Head(url) = "?" THEN url
    ELSE QueryStringOf(Tail(url))

\* C7 as stated: on every inbound GET operation the outbound URL's query
\* string is the inbound one, and there is none when the inbound has none.
C7_GetQueryVerbatim ==
    (CallSent /\ req.method = "GET") =>
      QueryStringOf(req.call.url) = req.query

\* C7, amended: on GET /tools, /tools/:id and /schema the outbound URL's query
\* string is the inbound one (none when the inbound has none); GET / sends no
\* query string and GET /api/openai-functions always sends ?schema=true.
C7_QueryForwardedOnToolsAndSchema ==
    CallSent =>
      (/\ req.route \in {"tools", "toolDetail", "schema"} =>
            QueryStringOf(req.call.url) = req.query
       /\ req.route = "root" => QueryStringOf(req.call.url) = <<>>
       /\ req.route = "openaiFunctions" =>
            QueryStringOf(req.call.url) = <<"?", "schema=true">>)

C7_Witness ==
    /\ CallSent
    /\ req.route = "toolDetail"
    /\ req.query = <<"?", "q=a", "?", "b">>
    /\ req.call.url = <<netpadUrl, "/api/mcp/tools/", "search", "?", "q=a", "?", "b">>

HasErrorShape(body) ==
    /\ body.t = "object"
    /\ HasKey(body, "success")
    /\ HasKey(body, "status")
    /\ HasKey(body, "message")
    /\ HasKey(Get(body, "error"), "code")

ErrorResponse == Responded /\ ~Resolves(req.res.status)

\* An upstream error status other than 401, 403 and 404: handleProxyError
\* relays the upstream body.
PassedThrough == UpstreamErrored /\ req.outcome.status \notin {401, 403, 404}

\* C8 as stated: every error response has success, status, message and
\* error.code.
C8_EveryErrorHasShape == ErrorResponse => HasErrorShape(req.res.body)

\* C8, amended: every AuthError, NotFoundError and ConnectionError response
\* and the unmatched-route 404 has success, status, message and error.code; a
\* relayed upstream error (any status other than 401, 403, 404) has the
\* upstream's body, whatever its shape.
C8_WrappedErrorsHaveShape ==
    (ErrorResponse /\ ~PassedThrough) =>
      (/\ HasErrorShape(req.res.body)
       /\ Get(req.res.body, "status") = Num(req.res.status)
       /\ ErrorCode(req.res) \in {Str("AUTH_ERROR"), Str("NOT_FOUND"),
                                  Str("NETPAD_CONNECTION_ERROR")})

C8_Witness ==
    /\ Responded
    /\ req.route = "notFound"
    /\ req.method = "PATCH"
    /\ req.res.status = 404
    /\ ErrorCode(req.res) = Str("NOT_FOUND")

----------------------------------------------------------------------------
(* Properties of the translator, checked under SpecTranslate.               *)

ToolList == Get(tools, "data")
Translated == tpc = "done" /\ functions.t = "array"

\* The description of a translated property, as C9 states it and as amended.
DescriptionOrKeyWhenMissing(key, source) ==
    IF HasKey(source, "description") THEN Get(source, "description") ELSE Str(key)
DescriptionOrKeyWhenMissingOrEmpty(key, source) ==
    IF HasKey(source, "description") /\ Get(source, "description") # Str("")
    THEN Get(source, "description")
    ELSE Str(key)

PropertyMatches(source, out, description) ==
    /\ Get(out, "type") = Get(source, "type")
    /\ Get(out, "description") = description
    /\ IF HasKey(source, "enum")
       THEN Get(out, "enum") = Get(source, "enum")
       ELSE ~HasKey(out, "enum")
    /\ IF HasKey(source, "default")
       THEN HasKey(out, "default") /\ Get(out, "default") = Get(source, "default")
       ELSE ~HasKey(out, "default")

\* The reference translation of one well-formed tool.
DescriptorMatches(tool, descriptor, Description(_, _)) ==
    LET fn == Get(descriptor, "function")
        source == Get(Get(tool, "parameters"), "properties").p
        out == Get(Get(fn, "parameters"), "properties").p
    IN  /\ Get(descriptor, "type") = Str("function")
        /\ Get(fn, "name") = IF HasKey(tool, "invoke") /\ Get(tool, "invoke") # Str("")
                             THEN Get(tool, "invoke")
                             ELSE Get(tool, "internalName")
        /\ Get(fn, "description") = Get(tool, "description")
        /\ Get(Get(fn, "parameters"), "type") = Str("object")
        /\ Len(out) = Len(source)
        /\ \A j \in DOMAIN source :
             /\ out[j].k = source[j].k
             /\ PropertyMatches(source[j].v, out[j].v,
                                Description(source[j].k, source[j].v))
        /\ Get(Get(fn, "parameters"), "required")
             = IF HasKey(Get(tool, "parameters"), "required")
               THEN Get(Get(tool, "parameters"), "required")
               ELSE Arr(<<>>)

\* C9 as stated: the translation of a well-formed tool is the reference
\* translation, in which a property's description is the property key only
\* when the source has no description.
C9_TranslationIsReference ==
    Translated =>
      \A i \in DOMAIN ToolList.a :
        ToolList.a[i] \in WellFormedTools =>
          DescriptorMatches(ToolList.a[i], functions.a[i],
                            DescriptionOrKeyWhenMissing)

\* C9, amended: the translation of a well-formed tool is the reference
\* translation, in which a property's description is the property key when
\* the source description is missing or is the empty string.
C9_TranslationIsReferenceWithKeyForEmpty ==
    Translated =>
      \A i \in DOMAIN ToolList.a :
        ToolList.a[i] \in WellFormedTools =>
          DescriptorMatches(ToolList.a[i], functions.a[i],
                            DescriptionOrKeyWhenMissingOrEmpty)

C9_Witness ==
    /\ Translated
    /\ \E i \in DOMAIN ToolList.a :
         LET fn == Get(functions.a[i], "function")
             properties == Get(Get(fn, "parameters"), "properties")
         IN  /\ ToolList.a[i] \in WellFormedTools
             /\ ~HasKey(ToolList.a[i], "invoke")
             /\ Get(fn, "name") = Str("search")
             /\ Get(Get(properties, "exact"), "default") = Bool(FALSE)
             /\ Get(Get(properties, "q"), "description") = Str("q")

\* The keys of an object, in order.
KeysOf(o) == [j \in DOMAIN Entries(o) |-> Entries(o)[j].k]

\* C10: for every tool list, malformed entries included, the translator
\* produces one FunctionDescriptor per entry, in input order and with each
\* tool's property keys in input order; it never fails.
C10_TranslationTotalAndOrdered ==
    (tpc = "done" /\ ToolList.t = "array") =>
      (/\ functions.t = "array"
       /\ Len(functions.a) = Len(ToolList.a)
       /\ \A i \in DOMAIN ToolList.a :
            KeysOf(Get(Get(Get(functions.a[i], "function"), "parameters"),
                       "properties"))
              = KeysOf(Optional(Optional(ToolList.a[i], "parameters"), "properties")))

----------------------------------------------------------------------------
(* The command line runs and the programmatic handle (src/index.js), with   *)
(* no requests in flight.  `last` names the last run of the command line    *)
(* and, for a start, the URL that the store held when it began.             *)

served == <<req, translator, reqs>>

StartRun(urlFlag) ==
    [op |-> "start", urlFlag |-> urlFlag, savedUrl |-> config.netpadUrl]

\* `netpad-mcp-proxy --reset`
CliReset ==
    /\ config' = ConfDefaults
    /\ last' = [op |-> "reset"]
    /\ UNCHANGED <<running, netpadUrl, handle, served>>

\* `netpad-mcp-proxy --configure`
CliConfigure(environment, devUrl, apiKey) ==
    /\ config' = Configured(environment, devUrl, apiKey)
    /\ last' = [op |-> "configure"]
    /\ UNCHANGED <<running, netpadUrl, handle, served>>

\* `netpad-mcp-proxy [--netpad-url <url>] [--api-key <key>]` from a shell.
CliStart(urlFlag, keyFlag, promptKey) ==
    LET started == Started(urlFlag, keyFlag, promptKey)
    IN  /\ ~running
        /\ config' = started.config
        /\ running' = started.running
        /\ netpadUrl' = started.netpadUrl
        /\ last' = StartRun(urlFlag)
        /\ UNCHANGED <<handle, served>>

\* index.js startServer(options): the child is spawned with --netpad-url and
\* --api-key only for the options given, and with the parent's stdin for the
\* API key prompt.  The child either serves or has exited with code 1.
SpawnServer(optionsNetpadUrl, optionsApiKey, promptKey) ==
    LET started == Started(optionsNetpadUrl, optionsApiKey, promptKey)
    IN  /\ ~running
        /\ config' = started.config
        /\ running' = started.running
        /\ netpadUrl' = started.netpadUrl
        /\ last' = StartRun(optionsNetpadUrl)
        /\ handle' = [spawned |-> TRUE, alive |-> started.running,
                      killed |-> FALSE]
        /\ UNCHANGED served

ChildAlive == handle.spawned /\ handle.alive

\* handle.stop(): serverProcess.kill() sends SIGTERM and sets `killed` when
\* the child is there to receive it; on a child that has exited it does
\* nothing.
Stop ==
    /\ handle.spawned
    /\ handle' = IF handle.alive THEN [handle EXCEPT !.killed = TRUE] ELSE handle
    /\ UNCHANGED <<config, running, netpadUrl, last, served>>

\* The child ends on the signal that stop() sent.
ChildTerminates ==
    /\ ChildAlive
    /\ handle.killed
    /\ handle' = [handle EXCEPT !.alive = FALSE]
    /\ running' = FALSE
    /\ UNCHANGED <<config, netpadUrl, last, served>>

\* The serving process ends by itself (Ctrl+C in its terminal, a crash).
ProcessExits ==
    /\ running
    /\ running' = FALSE
    /\ handle' = IF ChildAlive THEN [handle EXCEPT !.alive = FALSE] ELSE handle
    /\ UNCHANGED <<config, netpadUrl, last, served>>

\* handle.isRunning()
isRunning == ~handle.killed

NextLifecycle ==
    \/ CliReset
    \/ \E apiKey \in Keys \cup {NoValue} :
         \/ CliConfigure("production", NoValue, apiKey)
         \/ \E devUrl \in Urls \cup {NoValue} :
              CliConfigure("development", devUrl, apiKey)
    \/ \E urlFlag \in Urls \cup {NoValue}, keyFlag \in Keys \cup {NoValue},
          promptKey \in Keys \cup {NoValue} :
         CliStart(urlFlag, keyFlag, promptKey)
    \/ \E optionsNetpadUrl \in Urls \cup {NoValue},
          optionsApiKey \in Keys \cup {NoValue},
          promptKey \in Keys \cup {NoValue} :
         SpawnServer(optionsNetpadUrl, optionsApiKey, promptKey)
    \/ Stop
    \/ ChildTerminates
    \/ ProcessExits

SpecLifecycle == Init /\ [][NextLifecycle]_vars

\* C11: after a start without --netpad-url the store holds the URL it held
\* before (the one --configure saved), and a proxy that came up is connected
\* to that URL.
C11_StartWithoutFlagKeepsSavedUrl ==
    (last.op = "start" /\ last.urlFlag = NoValue) =>
      (/\ config.netpadUrl = last.savedUrl
       /\ running => netpadUrl = last.savedUrl)

\* C15: isRunning() is true exactly while the child process is alive: false
\* once it has been stopped or has exited by itself.
C15_IsRunningIffAlive ==
    handle.spawned => (isRunning <=> handle.alive)

----------------------------------------------------------------------------
(* Properties of the store under CLI runs while the server runs, checked    *)
(* under Spec.                                                              *)

\* C12: whenever the proxy issues an outbound call, the API key it read from
\* the store for that call is non-empty.
C12_CallCarriesNonEmptyKey ==
    CallSent => req.call.apiKey # ""

\* C14: the base URL named in error.message of a NETPAD_CONNECTION_ERROR
\* response is the base URL the failed outbound call was sent to.
C14_ConnectionErrorNamesCalledUrl ==
    (Responded /\ IsConnectionError(req.res) /\ req.call.sent) =>
      Get(Get(req.res.body, "error"), "message")
        = Str("Could not connect to NetPad at " \o req.call.url[1])

----------------------------------------------------------------------------
(* Concurrent inbound requests: each request of ReqIds is its own run of a  *)
(* handler, and the runs interleave at their awaits.  The server has been   *)
(* started with a key.                                                      *)

process == <<config, running, netpadUrl, req, translator, handle, last>>

InitConcurrent ==
    /\ config = [netpadUrl |-> DefaultUrl, apiKey |-> "mcp_k1"]
    /\ running = TRUE
    /\ netpadUrl = DefaultUrl
    /\ req = IdleReq
    /\ tools = Undef
    /\ functions = Undef
    /\ tpc = "in"
    /\ handle = NoHandle
    /\ last = NoRun
    /\ reqs = [id \in ReqIds |-> IdleReq]

\* The inbound requests: method, path, query, body.
ConcurrentRequests ==
    {<<"GET", <<"/">>, <<>>, Obj(<<>>)>>,
     <<"GET", <<"/tools">>, <<"?", "a=1">>, Obj(<<>>)>>,
     <<"GET", <<"/api/openai-functions">>, <<>>, Obj(<<>>)>>,
     <<"POST", <<"/command">>, <<>>, Obj(Command)>>,
     <<"POST", <<"/command">>, <<>>, Obj(<<Pair("auth", Str("token"))>> \o Command)>>}

ConcurrentOutcomes ==
    {[kind |-> "response", status |-> 200,
      data |-> Obj(<<Pair("success", Bool(TRUE)), Pair("data", Arr(<<SearchTool>>))>>)],
     [kind |-> "response", status |-> 500, data |-> Obj(<<Pair("foo", Num(1))>>)],
     [kind |-> "failure", message |-> "connect ECONNREFUSED"]}

\* Request id arrives; the event loop runs its handler up to the await.
ReceiveAt(id, method, path, query, body) ==
    /\ running
    /\ reqs[id].pc = "idle"
    /\ reqs' = [reqs EXCEPT ![id] = Accepted(method, path, query, body)]
    /\ UNCHANGED process

\* The outbound call of request id settles and the handler runs to its end.
SettleAt(id, outcome) ==
    /\ running
    /\ reqs[id].pc = "awaiting"
    /\ reqs' = [reqs EXCEPT ![id] =
                  [reqs[id] EXCEPT !.pc = "responded", !.outcome = outcome,
                                   !.res = Continue(reqs[id].route, outcome)]]
    /\ UNCHANGED process

\* The client of request id has its response.
FinishAt(id) ==
    /\ running
    /\ reqs[id].pc = "responded"
    /\ reqs' = [reqs EXCEPT ![id] = IdleReq]
    /\ UNCHANGED process

NextConcurrent ==
    \E id \in ReqIds :
      \/ \E r \in ConcurrentRequests : ReceiveAt(id, r[1], r[2], r[3], r[4])
      \/ \E outcome \in ConcurrentOutcomes : SettleAt(id, outcome)
      \/ FinishAt(id)

SpecConcurrent == InitConcurrent /\ [][NextConcurrent]_vars

\* C13: every inbound request on a forwarding route makes its outbound call,
\* is answered once the call has settled and not before, and is answered
\* with a ConnectionError when the call settled as a transport failure.
C13_OneCallOneResponse ==
    \A id \in ReqIds :
      LET r == reqs[id]
      IN  (r.pc # "idle" /\ r.route # "notFound") =>
            /\ r.call.sent
            /\ r.pc = "responded" <=> r.outcome.kind # "none"
            /\ (r.pc = "responded" /\ r.outcome.kind = "failure") =>
                 IsConnectionError(r.res)

====
